---- MODULE Spec2Model ----
(***************************************************************************)
(* Dataset automation pipeline of langfuse:                                *)
(*   datasetChangeEventSourcing  (publisher, web)                          *)
(*   datasetVersionProcessor / enqueueAutomationAction  (worker)           *)
(*   WebhookActionHandler.validateFormData  (webhook header validation)    *)
(*   WebhookActionHandler.getDefaultValues / buildActionConfig  (the form) *)
(* The processor is modelled at the granularity of its awaits: every await *)
(* on the store or on a queue is one step, the synchronous code before it  *)
(* belongs to the step of the previous await.                              *)
(***************************************************************************)
EXTENDS Integers, Sequences, FiniteSets, TLC

\* ------------------------------------------------------------------ bounds
MaxPublish == 2
MaxRuns == 2
MaxDeliveries == 2
MaxFaults == 1
MaxHeaders == 3
MaxEdited == 1

RunIds == 1 .. MaxRuns

\* ------------------------------------------------------- stored entities
Null == [id |-> "null", name |-> "", projectId |-> ""]

Datasets == {[id |-> "d1", name |-> "eval-set", projectId |-> "p1"]}

TriggerEventActions == {"created", "updated", "deleted"}

\* The trigger table of the store.  actionIds is the list the processor
\* checks; filter is a list of conditions.
TriggerTable ==
  << [id |-> 1, projectId |-> "p1", eventSource |-> "dataset", status |-> "ACTIVE",
      filter |-> << [column |-> "action", operator |-> "=", value |-> "updated"] >>,
      actionIds |-> << "a1" >>],
     [id |-> 2, projectId |-> "p1", eventSource |-> "dataset", status |-> "ACTIVE",
      filter |-> << >>,
      actionIds |-> << "a1", "a2" >>],
     [id |-> 3, projectId |-> "p1", eventSource |-> "dataset", status |-> "ACTIVE",
      filter |-> << [column |-> "action", operator |-> "<>", value |-> "deleted"] >>,
      actionIds |-> << >>],
     [id |-> 4, projectId |-> "p1", eventSource |-> "dataset", status |-> "ACTIVE",
      filter |-> << >>,
      actionIds |-> << "a2" >>],
     [id |-> 5, projectId |-> "p1", eventSource |-> "dataset", status |-> "ACTIVE",
      filter |-> << [column |-> "Name", operator |-> "=", value |-> "eval-set"] >>,
      actionIds |-> << "a1" >>],
     [id |-> 6, projectId |-> "p1", eventSource |-> "dataset", status |-> "INACTIVE",
      filter |-> << >>,
      actionIds |-> << "a1" >>],
     [id |-> 7, projectId |-> "p1", eventSource |-> "prompt", status |-> "ACTIVE",
      filter |-> << >>,
      actionIds |-> << "a1" >>] >>

\* The triggers of a project whose configuration is edited while events are
\* processed: one filters on a column that datasets do not have, one names an
\* action that was deleted, one has no filter.
EditedTriggerTable ==
  << [id |-> 1, projectId |-> "p1", eventSource |-> "dataset", status |-> "ACTIVE",
      filter |-> << [column |-> "action", operator |-> "<>", value |-> "deleted"],
                    [column |-> "description", operator |-> "<>", value |-> "eval-set"] >>,
      actionIds |-> << "a1" >>],
     [id |-> 2, projectId |-> "p1", eventSource |-> "dataset", status |-> "ACTIVE",
      filter |-> << >>,
      actionIds |-> << "a3" >>],
     [id |-> 3, projectId |-> "p1", eventSource |-> "dataset", status |-> "ACTIVE",
      filter |-> << >>,
      actionIds |-> << "a1" >>] >>

\* Actions present in the store, and the automations of each action.
ActionTable == {"a1", "a2"}

AutomationTable == [a \in {"a1", "a2", "a3"} |->
                      CASE a = "a1" -> {"auto1"}
                        [] a = "a2" -> {"auto2", "auto3"}
                        [] OTHER -> {}]

VARIABLES
  entityChangeQueueInstance, \* EntityChangeQueue.getInstance() yields a queue
  webhookQueueInstance,      \* WebhookQueue.getInstance() yields a queue
  entityChangeQueue,         \* jobs added to the entity-change queue
  lastPublish,               \* the latest datasetChangeEventSourcing call and its outcome
  triggerStore,              \* trigger configurations in the store
  runs,                      \* the datasetVersionProcessor invocations
  executions,                \* automationExecution table, keyed by id
  webhookQueue,              \* jobs added to the webhook queue
  errorLog,                  \* logger.error calls of the processor
  deliveries,                \* delivery attempts made by the webhook dispatcher
  faults,                    \* rejected store and queue calls so far
  formData,                  \* the webhook action form handed to validateFormData
  validation,                \* what validateFormData returned for it
  automation,                \* the automation whose webhook action the form edits
  actionConfig               \* what buildActionConfig returned for the form

pipelineVars == << entityChangeQueueInstance, webhookQueueInstance, entityChangeQueue,
                   lastPublish, triggerStore, runs, executions, webhookQueue,
                   errorLog, deliveries, faults >>

formVars == << formData, validation, automation, actionConfig >>

vars == << pipelineVars, formVars >>

\* ------------------------------------------------ trigger filter evaluation
Undefined == "undefined"

\* const eventData = { ...event.dataset, action: event.action }
EventData(event) ==
  [id |-> event.dataset.id, name |-> event.dataset.name,
   projectId |-> event.dataset.projectId, action |-> event.action]

\* the columns offered for the filter of a dataset trigger
datasetsTableCols ==
  << [id |-> "name", name |-> "Name", type |-> "string", internal |-> "d.\"name\""] >>

\* datasetsTableCols.filter((col) => col.id === "name")
datasetActionFilterOptions == SelectSeq(datasetsTableCols, LAMBDA col : col.id = "name")

\* a mapper that resolves a column it does not know to the dataset's id
fieldMapperDefaultId(data, column) ==
  CASE column = "action" -> data.action
    [] column = "Name" -> data.name
    [] OTHER -> data.id

\* the fieldMapper closure of datasetVersionProcessor
fieldMapper(data, column) ==
  CASE column = "action" -> data.action
    [] column = "Name" -> data.name
    [] OTHER -> Undefined

\* one condition: an unresolved column is a non-match
evaluateCondition(data, condition) ==
  LET fieldValue == fieldMapper(data, condition.column)
  IN  IF fieldValue = Undefined THEN FALSE
      ELSE CASE condition.operator = "=" -> fieldValue = condition.value
             [] condition.operator = "<>" -> fieldValue # condition.value
             [] OTHER -> FALSE

\* InMemoryFilterService.evaluateFilter: conjunction, empty list matches
evaluateFilter(data, filter) ==
  \A i \in 1 .. Len(filter) : evaluateCondition(data, filter[i])

eventMatches(event, trigger) == evaluateFilter(EventData(event), trigger.filter)

SkipTriggerNever(matches) == FALSE

SkipTriggerInverted(matches) == matches

\* if (!eventMatches) { ...; continue; }
SkipTrigger(matches) == ~matches

ActionCountZero(trigger) == Len(trigger.actionIds) < 1

\* if (trigger.actionIds.length !== 1) throw
ActionCountInvalid(trigger) == Len(trigger.actionIds) # 1

\* if (automations.length !== 1) throw
AutomationCountInvalid(automations) == Cardinality(automations) # 1

\* ---------------------------------------------------------- store lookups
\* a lookup that leaves the status out of the query
getTriggerConfigurationsAnyStatus(store, projectId) ==
  SelectSeq(store, LAMBDA t : /\ t.projectId = projectId
                              /\ t.eventSource = "dataset")

\* getTriggerConfigurations({projectId, eventSource: Dataset, status: ACTIVE})
getTriggerConfigurations(store, projectId) ==
  SelectSeq(store, LAMBDA t : /\ t.projectId = projectId
                              /\ t.eventSource = "dataset"
                              /\ t.status = "ACTIVE")

\* a processor that does not test what getActionById returned
ActionExistsUnchecked(actionId) == TRUE

\* getActionById: the action or nothing
ActionExists(actionId) == actionId \in ActionTable

\* getAutomations({projectId, actionId})
getAutomations(actionId) == AutomationTable[actionId]

\* --------------------------------------------------------- processor runs
IdleRun == [pc |-> "idle", eventIdx |-> 0, lookup |-> "pending", triggers |-> << >>,
            idx |-> 0, aidx |-> 0, automationId |-> "", executionId |-> 0,
            dispatched |-> {}]

\* v4(): a value no other call returns, named here after the call that makes it
\* (run, loop iteration, position in actionIds)
v4(r, run) == r * 100 + run.idx * 10 + run.aidx

Event(run) == entityChangeQueue[run.eventIdx].payload

Trigger(run) == run.triggers[run.idx]

ActionId(run) == Trigger(run).actionIds[run.aidx]

\* for (const trigger of triggers): the next iteration, or the normal return
NextTrigger(run) ==
  IF run.idx < Len(run.triggers)
    THEN [run EXCEPT !.idx = @ + 1, !.aidx = 1, !.pc = "evaluate"]
    ELSE [run EXCEPT !.pc = "returned"]

AfterTriggerErrorBreak(run) == [run EXCEPT !.pc = "returned"]

\* inner catch: log, then continue with the other triggers
AfterTriggerError(run) == NextTrigger(run)

AfterLookupErrorSwallowed(run) == [run EXCEPT !.pc = "returned"]

\* outer catch: log, then throw error
AfterLookupError(run) == [run EXCEPT !.pc = "threw"]

\* Promise.all(trigger.actionIds.map(...)): the chain of the next action id,
\* or the end of the trigger's iteration (the list has one entry here)
AfterAction(run) ==
  IF run.aidx < Len(Trigger(run).actionIds)
    THEN [run EXCEPT !.aidx = @ + 1, !.pc = "getAction"]
    ELSE NextTrigger(run)

TriggerError(r) == [run |-> r, trigger |-> Trigger(runs[r]).id, kind |-> "trigger"]

ActionNotFound(r) == [run |-> r, trigger |-> Trigger(runs[r]).id, kind |-> "action"]

LookupError(r) == [run |-> r, trigger |-> 0, kind |-> "event"]

NewExecutionDone(run) ==
  [id |-> run.executionId,
   projectId |-> Event(run).projectId,
   automationId |-> run.automationId,
   triggerId |-> Trigger(run).id,
   actionId |-> ActionId(run),
   status |-> "SUCCESS",
   sourceId |-> Event(run).dataset.id,
   input |-> [datasetName |-> Event(run).dataset.name,
              datasetId |-> Event(run).dataset.id,
              automationId |-> run.automationId,
              type |-> "dataset"]]

\* prisma.automationExecution.create({data: ...})
NewExecution(run) ==
  [id |-> run.executionId,
   projectId |-> Event(run).projectId,
   automationId |-> run.automationId,
   triggerId |-> Trigger(run).id,
   actionId |-> ActionId(run),
   status |-> "PENDING",
   sourceId |-> Event(run).dataset.id,
   input |-> [datasetName |-> Event(run).dataset.name,
              datasetId |-> Event(run).dataset.id,
              automationId |-> run.automationId,
              type |-> "dataset"]]

\* the job handed to WebhookQueue.add
NewWebhookJob(run) ==
  [name |-> "WebhookJob",
   payload |-> [projectId |-> Event(run).projectId,
                automationId |-> run.automationId,
                executionId |-> run.executionId,
                payload |-> [action |-> Event(run).action,
                             type |-> "dataset",
                             dataset |-> Event(run).dataset]]]

AfterCreateErrorContinue(run) == [run EXCEPT !.pc = "add"]

\* a rejected create propagates out of enqueueAutomationAction to the inner catch
AfterCreateError(run) == AfterTriggerError(run)


\* ------------------------------------------------ webhook header validation
\* Strings that validateFormData inspects are sequences of characters.
Upper == << "A", "B", "C", "D", "E", "F", "G", "H", "I", "J", "K", "L", "M",
            "N", "O", "P", "Q", "R", "S", "T", "U", "V", "W", "X", "Y", "Z" >>

Lower == << "a", "b", "c", "d", "e", "f", "g", "h", "i", "j", "k", "l", "m",
            "n", "o", "p", "q", "r", "s", "t", "u", "v", "w", "x", "y", "z" >>

WhiteSpace == {" "}

\* String.prototype.toLowerCase
toLowerCase(str) ==
  [i \in 1 .. Len(str) |->
     IF \E k \in 1 .. Len(Upper) : Upper[k] = str[i]
       THEN Lower[CHOOSE k \in 1 .. Len(Upper) : Upper[k] = str[i]]
       ELSE str[i]]

RECURSIVE trimStart(_)
trimStart(str) ==
  IF str # << >> /\ Head(str) \in WhiteSpace THEN trimStart(Tail(str)) ELSE str

RECURSIVE trimEnd(_)
trimEnd(str) ==
  IF str # << >> /\ str[Len(str)] \in WhiteSpace
    THEN trimEnd(SubSeq(str, 1, Len(str) - 1))
    ELSE str

\* String.prototype.trim
trim(str) == trimEnd(trimStart(str))

\* Object.keys(WebhookDefaultHeaders).  The object is declared outside these
\* files: one key is the default header of scenario D, written in lower case,
\* the other stands for a key written with a capital letter.
defaultHeaderKeys ==
  { << "a", "u", "t", "h", "o", "r", "i", "z", "a", "t", "i", "o", "n" >>,
    << "A" >> }

ValidationError(index, rule) == [header |-> index, rule |-> rule]

\* if (header.name.trim() || header.value.trim())
HeaderInUse(header) == trim(header.name) # << >> \/ trim(header.value) # << >>

TransitionToSecretWithoutValue(header) ==
  ~header.wasSecret /\ header.isSecret /\ trim(header.value) = << >>

\* if (header.wasSecret !== header.isSecret && !header.value.trim())
TransitionWithoutValue(header) ==
  header.wasSecret # header.isSecret /\ trim(header.value) = << >>

\* the row's name compared as typed, without lower-casing
ConflictsWithDefaultAsTyped(header) ==
  trim(header.name) # << >> /\ trim(header.name) \in defaultHeaderKeys

\* header.name.trim() && defaultHeaderKeys.includes(header.name.trim().toLowerCase())
ConflictsWithDefault(header) ==
  trim(header.name) # << >> /\ toLowerCase(trim(header.name)) \in defaultHeaderKeys

\* a validator that stops at the first violation of a row
HeaderErrorsFirstOnly(header, index) ==
  IF ~HeaderInUse(header) THEN << >>
  ELSE IF trim(header.name) = << >>
    THEN << ValidationError(index, "Name cannot be empty") >>
  ELSE IF trim(header.value) = << >> /\ ~header.isSecret
    THEN << ValidationError(index, "Value cannot be empty") >>
  ELSE IF TransitionWithoutValue(header)
    THEN << ValidationError(index,
              IF header.wasSecret
                THEN "A value must be provided when making a header public"
                ELSE "A value must be provided when making a header secret") >>
  ELSE IF ConflictsWithDefault(header)
    THEN << ValidationError(index, "is automatically added by Langfuse") >>
  ELSE << >>

\* the body of the forEach callback for one header row
HeaderErrors(header, index) ==
  IF HeaderInUse(header)
    THEN (IF trim(header.name) = << >>
            THEN << ValidationError(index, "Name cannot be empty") >> ELSE << >>)
         \o (IF trim(header.value) = << >> /\ ~header.isSecret
               THEN << ValidationError(index, "Value cannot be empty") >> ELSE << >>)
         \o (IF TransitionWithoutValue(header)
               THEN << ValidationError(index,
                         IF header.wasSecret
                           THEN "A value must be provided when making a header public"
                           ELSE "A value must be provided when making a header secret") >>
               ELSE << >>)
         \o (IF ConflictsWithDefault(header)
               THEN << ValidationError(index, "is automatically added by Langfuse") >>
               ELSE << >>)
    ELSE << >>

RECURSIVE AllHeaderErrors(_, _)
AllHeaderErrors(headers, index) ==
  IF index > Len(headers) THEN << >>
  ELSE HeaderErrors(headers[index], index) \o AllHeaderErrors(headers, index + 1)

headerNamesCaseSensitive(headers) ==
  LET named == SelectSeq(headers, LAMBDA h : trim(h.name) # << >>)
  IN  [i \in 1 .. Len(named) |-> trim(named[i].name)]

\* headers.filter((h) => h.name.trim()).map((h) => h.name.trim().toLowerCase())
headerNames(headers) ==
  LET named == SelectSeq(headers, LAMBDA h : trim(h.name) # << >>)
  IN  [i \in 1 .. Len(named) |-> toLowerCase(trim(named[i].name))]

\* uniqueHeaderNames.size < headerNames.length
HasDuplicateNames(names) ==
  Cardinality({names[i] : i \in 1 .. Len(names)}) < Len(names)

DuplicateErrors(headers) ==
  IF HasDuplicateNames(headerNames(headers))
    THEN << ValidationError(0, "Duplicate header names are not allowed") >>
    ELSE << >>

\* WebhookActionHandler.validateFormData; errors is empty where the code
\* returns undefined
validateFormData(data) ==
  LET errors == (IF data.webhook.url = "" THEN << ValidationError(0, "Webhook URL is required") >>
                 ELSE << >>)
                \o AllHeaderErrors(data.webhook.headers, 1)
                \o DuplicateErrors(data.webhook.headers)
  IN  [validated |-> TRUE, isValid |-> Len(errors) = 0, errors |-> errors]

\* ---- submitted forms
HeaderNameInputs ==
  { << >>, << " " >>, << "A" >>, << "a", " " >>,
    << "A", "u", "t", "h", "o", "r", "i", "z", "a", "t", "i", "o", "n" >> }

HeaderValueInputs == { << >>, << " " >>, << "v" >> }

UrlInputs == { "", "https://example.com/hook" }

HeaderPairs ==
  [name : HeaderNameInputs, value : HeaderValueInputs, displayValue : { << >> },
   isSecret : BOOLEAN, wasSecret : BOOLEAN]

HeaderLists == UNION { [1 .. n -> HeaderPairs] : n \in 0 .. MaxHeaders }

Forms == { [webhook |-> [url |-> u, headers |-> h]] : u \in UrlInputs, h \in HeaderLists }

EmptyForm == [webhook |-> [url |-> "", headers |-> << >>]]

NotValidated == [validated |-> FALSE, isValid |-> FALSE, errors |-> << >>]

\* ------------------------------------------- webhook action form and config
TriggerEventSources == {"dataset", "prompt"}

EVENT_SOURCE_TO_API_VERSION_KEY == ("dataset" :> "dataset") @@ ("prompt" :> "prompt")

\* formData.eventSource is optional: the absent value
NoEventSource == ""

\* { [apiVersionKey]: "v1" }
ApiVersion(apiVersionKey) == (apiVersionKey :> "v1")

\* a saved configuration without the apiVersion field
NoApiVersion == << >>

\* the display value saved for a secret header is the empty string or a masked
\* value; a masked value keeps the tail of the secret
MaskStyles == {"blank", "tail"}

maskValue(style, value) ==
  IF style = "blank" \/ value = << >> THEN << >> ELSE << "*", value[Len(value)] >>

\* the display headers saved next to the stored request headers
createDisplayHeaders(style, requestHeaders) ==
  [i \in 1 .. Len(requestHeaders) |->
     [name |-> requestHeaders[i].name,
      secret |-> requestHeaders[i].secret,
      value |-> IF requestHeaders[i].secret
                  THEN maskValue(style, requestHeaders[i].value)
                  ELSE requestHeaders[i].value]]

\* formatWebhookHeaders: the rows that carry a name, keyed by the trimmed name
formatWebhookHeaders(headers) ==
  LET named == SelectSeq(headers, LAMBDA h : trim(h.name) # << >>)
  IN  [i \in 1 .. Len(named) |->
         [name |-> trim(named[i].name), secret |-> named[i].isSecret,
          value |-> named[i].value]]

\* parseHeaders that passes the saved value on to the editable value
parseHeadersUnredacted(config) ==
  [i \in 1 .. Len(config.displayHeaders) |->
     [name |-> config.displayHeaders[i].name,
      value |-> config.displayHeaders[i].value,
      displayValue |-> config.displayHeaders[i].value,
      isSecret |-> config.displayHeaders[i].secret,
      wasSecret |-> config.displayHeaders[i].secret]]

\* parseHeaders over Object.entries(config.displayHeaders)
parseHeaders(config) ==
  [i \in 1 .. Len(config.displayHeaders) |->
     [name |-> config.displayHeaders[i].name,
      value |-> IF config.displayHeaders[i].secret
                  THEN << >> ELSE config.displayHeaders[i].value,
      displayValue |-> config.displayHeaders[i].value,
      isSecret |-> config.displayHeaders[i].secret,
      wasSecret |-> config.displayHeaders[i].secret]]

\* getDefaultValues(automation); automation is undefined for a new automation
getDefaultValues(a) ==
  IF ~a.saved
    THEN [webhook |-> [url |-> "", headers |-> << >>,
                       apiVersion |-> ApiVersion(EVENT_SOURCE_TO_API_VERSION_KEY["prompt"])]]
    ELSE [webhook |->
            [url |-> a.action.config.url,
             headers |-> parseHeaders(a.action.config),
             apiVersion |->
               IF a.action.config.apiVersion # NoApiVersion
                 THEN a.action.config.apiVersion
                 ELSE ApiVersion(EVENT_SOURCE_TO_API_VERSION_KEY[a.trigger.eventSource])]]

NotBuilt == [result |-> "none"]

\* buildActionConfig that takes the key from the form's apiVersion
buildActionConfigFromForm(data) ==
  [result |-> "returned", type |-> "WEBHOOK", url |-> data.webhook.url,
   requestHeaders |-> formatWebhookHeaders(data.webhook.headers),
   apiVersion |-> data.webhook.apiVersion]

\* buildActionConfig(formData)
buildActionConfig(data) ==
  LET eventSource == IF data.eventSource = NoEventSource THEN "prompt"
                     ELSE data.eventSource
  IN  IF eventSource \notin DOMAIN EVENT_SOURCE_TO_API_VERSION_KEY
        THEN [result |-> "threw"]
        ELSE [result |-> "returned", type |-> "WEBHOOK", url |-> data.webhook.url,
              requestHeaders |-> formatWebhookHeaders(data.webhook.headers),
              apiVersion |-> ApiVersion(EVENT_SOURCE_TO_API_VERSION_KEY[eventSource])]

\* ---- saved automations
SavedHeaderNames == { << "X" >>, << "Y" >> }

SavedHeaderValues == { << "k", "1" >>, << "k", "2" >> }

SavedHeaders ==
  [name : SavedHeaderNames, secret : BOOLEAN, value : SavedHeaderValues]

\* the header map of a configuration: its entries, no name twice
SavedHeaderLists ==
  { h \in UNION { [1 .. n -> SavedHeaders] : n \in 0 .. Cardinality(SavedHeaderNames) } :
      \A i, j \in 1 .. Len(h) : h[i].name = h[j].name => i = j }

SavedApiVersions ==
  {NoApiVersion} \cup { ApiVersion(EVENT_SOURCE_TO_API_VERSION_KEY[es]) :
                           es \in TriggerEventSources }

SavedAutomationsOf(style) ==
  { [saved |-> TRUE,
     trigger |-> [eventSource |-> es],
     action |-> [type |-> "WEBHOOK",
                 config |-> [url |-> "https://example.com/hook",
                             apiVersion |-> v,
                             requestHeaders |-> h,
                             displayHeaders |-> createDisplayHeaders(style, h)]]] :
      es \in TriggerEventSources, v \in SavedApiVersions, h \in SavedHeaderLists }

\* an automation that is being created: only its trigger's event source is picked
NewAutomations == { [saved |-> FALSE, trigger |-> [eventSource |-> es]] :
                      es \in TriggerEventSources }

SavedAutomations == UNION { SavedAutomationsOf(style) : style \in MaskStyles }

Automations == NewAutomations \cup SavedAutomations

NoAutomation == [saved |-> FALSE, trigger |-> [eventSource |-> NoEventSource]]

\* ------------------------------------------------------------------- Init
NoPublish == [dataset |-> Null, action |-> "none", result |-> "none",
              enqueued |-> FALSE, errorLogged |-> FALSE]

Init ==
  /\ entityChangeQueueInstance \in BOOLEAN
  /\ webhookQueueInstance \in BOOLEAN
  /\ entityChangeQueue = << >>
  /\ lastPublish = NoPublish
  /\ triggerStore = TriggerTable
  /\ runs = [r \in RunIds |-> IdleRun]
  /\ executions = << >>
  /\ webhookQueue = {}
  /\ errorLog = {}
  /\ deliveries = 0
  /\ faults = 0
  /\ formData = EmptyForm
  /\ validation = NotValidated
  /\ automation = NoAutomation
  /\ actionConfig = NotBuilt

\* a store or queue call resolves (TRUE) or rejects (FALSE)
CallOutcomes == IF faults < MaxFaults THEN {TRUE, FALSE} ELSE {TRUE}

Charge(ok) == faults' = IF ok THEN faults ELSE faults + 1

\* -------------------------------------------------------------- publisher
ChangeEvent(datasetData, action) ==
  [name |-> "EntityChangeJob",
   payload |-> [entityType |-> "dataset",
                projectId |-> datasetData.projectId,
                datasetId |-> datasetData.id,
                action |-> action,
                dataset |-> datasetData]]

PublishCall(datasetData, action, result, enqueued, errorLogged) ==
  [dataset |-> datasetData, action |-> action, result |-> result,
   enqueued |-> enqueued, errorLogged |-> errorLogged]

\* datasetChangeEventSourcing(datasetData, action).  prepared: listDatasetVersions
\* and jsonSchemaNullable.parse resolve; added: the queue's add resolves.
datasetChangeEventSourcing(datasetData, action, prepared, added) ==
  /\ Len(entityChangeQueue) < MaxPublish
  /\ UNCHANGED << formVars, entityChangeQueueInstance, webhookQueueInstance, triggerStore, runs,
                  executions, webhookQueue, errorLog, deliveries >>
  /\ IF datasetData = Null
       THEN /\ prepared /\ added
            /\ lastPublish' = PublishCall(datasetData, action, "returned", FALSE, FALSE)
            /\ UNCHANGED << entityChangeQueue, faults >>
       ELSE IF ~prepared
         THEN /\ added
              /\ lastPublish' = PublishCall(datasetData, action, "threw", FALSE, FALSE)
              /\ Charge(FALSE)
              /\ UNCHANGED entityChangeQueue
         ELSE IF ~entityChangeQueueInstance
           THEN /\ added
                /\ lastPublish' = PublishCall(datasetData, action, "returned", FALSE, FALSE)
                /\ UNCHANGED << entityChangeQueue, faults >>
           ELSE IF ~added
             THEN /\ lastPublish' = PublishCall(datasetData, action, "threw", FALSE, TRUE)
                  /\ Charge(FALSE)
                  /\ UNCHANGED entityChangeQueue
             ELSE /\ entityChangeQueue' =
                       Append(entityChangeQueue, ChangeEvent(datasetData, action))
                  /\ lastPublish' = PublishCall(datasetData, action, "returned", TRUE, FALSE)
                  /\ UNCHANGED faults

Publish ==
  \E datasetData \in Datasets \cup {Null}, action \in TriggerEventActions,
     prepared \in CallOutcomes, added \in CallOutcomes :
    datasetChangeEventSourcing(datasetData, action, prepared, added)

\* -------------------------------------------------------------- processor
\* the entity-change worker hands a queued event to datasetVersionProcessor;
\* at-least-once delivery: an event may be handed out more than once.  The
\* invocations are interchangeable, so they are numbered in the order they start.
DeliverChangeEvent(r) ==
  /\ runs[r].pc = "idle"
  /\ IF r = 1 THEN TRUE ELSE runs[r - 1].pc # "idle"
  /\ \E e \in 1 .. Len(entityChangeQueue) :
       runs' = [runs EXCEPT ![r] = [@ EXCEPT !.pc = "getTriggers", !.eventIdx = e]]
  /\ UNCHANGED << formVars, entityChangeQueueInstance, webhookQueueInstance, entityChangeQueue,
                  lastPublish, triggerStore, executions, webhookQueue, errorLog,
                  deliveries, faults >>

\* await getTriggerConfigurations(...)
GetTriggers(r) ==
  /\ runs[r].pc = "getTriggers"
  /\ \E ok \in CallOutcomes :
       /\ Charge(ok)
       /\ IF ok
            THEN LET triggers == getTriggerConfigurations(triggerStore,
                                                          Event(runs[r]).projectId)
                     loaded == [runs[r] EXCEPT !.lookup = "ok", !.triggers = triggers]
                 IN  /\ runs' = [runs EXCEPT ![r] = NextTrigger(loaded)]
                     /\ UNCHANGED errorLog
            ELSE /\ runs' = [runs EXCEPT ![r] =
                               AfterLookupError([@ EXCEPT !.lookup = "failed"])]
                 /\ errorLog' = errorLog \cup {LookupError(r)}
  /\ UNCHANGED << formVars, entityChangeQueueInstance, webhookQueueInstance, entityChangeQueue,
                  lastPublish, triggerStore, executions, webhookQueue, deliveries >>

\* the synchronous head of one loop iteration: filter, then the action count
EvaluateTrigger(r) ==
  /\ runs[r].pc = "evaluate"
  /\ \E ok \in CallOutcomes :
       /\ Charge(ok)
       /\ IF ~ok
            THEN /\ runs' = [runs EXCEPT ![r] = AfterTriggerError(@)]
                 /\ errorLog' = errorLog \cup {TriggerError(r)}
            ELSE IF SkipTrigger(eventMatches(Event(runs[r]), Trigger(runs[r])))
              THEN /\ runs' = [runs EXCEPT ![r] = NextTrigger(@)]
                   /\ UNCHANGED errorLog
              ELSE IF ActionCountInvalid(Trigger(runs[r]))
                THEN /\ runs' = [runs EXCEPT ![r] = AfterTriggerError(@)]
                     /\ errorLog' = errorLog \cup {TriggerError(r)}
                ELSE /\ runs' = [runs EXCEPT ![r] = [@ EXCEPT !.pc = "getAction"]]
                     /\ UNCHANGED errorLog
  /\ UNCHANGED << formVars, entityChangeQueueInstance, webhookQueueInstance, entityChangeQueue,
                  lastPublish, triggerStore, executions, webhookQueue, deliveries >>

\* await getActionById(...)
GetActionById(r) ==
  /\ runs[r].pc = "getAction"
  /\ \E ok \in CallOutcomes :
       /\ Charge(ok)
       /\ IF ~ok
            THEN /\ runs' = [runs EXCEPT ![r] = AfterTriggerError(@)]
                 /\ errorLog' = errorLog \cup {TriggerError(r)}
            ELSE IF ~ActionExists(ActionId(runs[r]))
              THEN /\ runs' = [runs EXCEPT ![r] = AfterAction(@)]
                   /\ errorLog' = errorLog \cup {ActionNotFound(r)}
              ELSE /\ runs' = [runs EXCEPT ![r] = [@ EXCEPT !.pc = "getAutomations"]]
                   /\ UNCHANGED errorLog
  /\ UNCHANGED << formVars, entityChangeQueueInstance, webhookQueueInstance, entityChangeQueue,
                  lastPublish, triggerStore, executions, webhookQueue, deliveries >>

\* await getAutomations(...), the count check and const executionId = v4()
GetAutomations(r) ==
  /\ runs[r].pc = "getAutomations"
  /\ \E ok \in CallOutcomes :
       /\ Charge(ok)
       /\ LET automations == getAutomations(ActionId(runs[r]))
          IN  IF ~ok \/ AutomationCountInvalid(automations)
                THEN /\ runs' = [runs EXCEPT ![r] = AfterTriggerError(@)]
                     /\ errorLog' = errorLog \cup {TriggerError(r)}
                ELSE /\ runs' = [runs EXCEPT ![r] =
                           [@ EXCEPT !.pc = "create",
                                     !.automationId = CHOOSE a \in automations : TRUE,
                                     !.executionId = v4(r, runs[r])]]
                     /\ UNCHANGED errorLog
  /\ UNCHANGED << formVars, entityChangeQueueInstance, webhookQueueInstance, entityChangeQueue,
                  lastPublish, triggerStore, executions, webhookQueue, deliveries >>

\* await prisma.automationExecution.create(...)
CreateExecution(r) ==
  /\ runs[r].pc = "create"
  /\ \E ok \in CallOutcomes :
       /\ Charge(ok)
       /\ IF ~ok
            THEN /\ runs' = [runs EXCEPT ![r] = AfterCreateError(@)]
                 /\ errorLog' = errorLog \cup {TriggerError(r)}
                 /\ UNCHANGED executions
            ELSE /\ executions' = executions @@
                                    (runs[r].executionId :> NewExecution(runs[r]))
                 /\ runs' = [runs EXCEPT ![r] =
                      [@ EXCEPT !.pc = "add",
                                !.dispatched = @ \cup
                                   {[triggerId |-> Trigger(runs[r]).id,
                                     executionId |-> runs[r].executionId]}]]
                 /\ UNCHANGED errorLog
  /\ UNCHANGED << formVars, entityChangeQueueInstance, webhookQueueInstance, entityChangeQueue,
                  lastPublish, triggerStore, webhookQueue, deliveries >>

\* await WebhookQueue.getInstance()?.add(...): without an instance the call and
\* its arguments are not evaluated; otherwise jsonSchemaNullable.parse or add
\* may reject
AddWebhookJob(r) ==
  /\ runs[r].pc = "add"
  /\ \E ok \in CallOutcomes :
       /\ Charge(ok)
       /\ IF ~webhookQueueInstance
            THEN /\ ok
                 /\ runs' = [runs EXCEPT ![r] = AfterAction(@)]
                 /\ UNCHANGED << webhookQueue, errorLog >>
            ELSE IF ~ok
              THEN /\ runs' = [runs EXCEPT ![r] = AfterTriggerError(@)]
                   /\ errorLog' = errorLog \cup {TriggerError(r)}
                   /\ UNCHANGED webhookQueue
              ELSE /\ webhookQueue' = webhookQueue \cup {NewWebhookJob(runs[r])}
                   /\ runs' = [runs EXCEPT ![r] = AfterAction(@)]
                   /\ UNCHANGED errorLog
  /\ UNCHANGED << formVars, entityChangeQueueInstance, webhookQueueInstance, entityChangeQueue,
                  lastPublish, triggerStore, executions, deliveries >>

\* ------------------------------------------------------ webhook dispatcher
\* the status write of one resolved delivery attempt: PENDING -> SUCCESS | ERROR
ResolveDelivery(execution, delivered) ==
  IF execution.status = "PENDING"
    THEN [execution EXCEPT !.status = IF delivered THEN "SUCCESS" ELSE "ERROR"]
    ELSE execution

\* one delivery attempt of a webhook job; the queue may redeliver a job
DispatchWebhook(job) ==
  /\ deliveries < MaxDeliveries
  /\ deliveries' = deliveries + 1
  /\ \E delivered \in BOOLEAN :
       executions' = [id \in DOMAIN executions |->
                        IF id = job.payload.executionId
                          THEN ResolveDelivery(executions[id], delivered)
                          ELSE executions[id]]
  /\ UNCHANGED << formVars, entityChangeQueueInstance, webhookQueueInstance, entityChangeQueue,
                  lastPublish, triggerStore, runs, webhookQueue, errorLog, faults >>

Next ==
  \/ Publish
  \/ \E r \in RunIds : DeliverChangeEvent(r)
  \/ \E r \in RunIds : GetTriggers(r)
  \/ \E r \in RunIds : EvaluateTrigger(r)
  \/ \E r \in RunIds : GetActionById(r)
  \/ \E r \in RunIds : GetAutomations(r)
  \/ \E r \in RunIds : CreateExecution(r)
  \/ \E r \in RunIds : AddWebhookJob(r)
  \/ \E job \in webhookQueue : DispatchWebhook(job)

Spec == Init /\ [][Next]_vars

\* ---- the pipeline while trigger configurations are edited
InitEdited ==
  /\ entityChangeQueueInstance = TRUE
  /\ webhookQueueInstance = TRUE
  /\ entityChangeQueue = << >>
  /\ lastPublish = NoPublish
  /\ triggerStore = EditedTriggerTable
  /\ runs = [r \in RunIds |-> IdleRun]
  /\ executions = << >>
  /\ webhookQueue = {}
  /\ errorLog = {}
  /\ deliveries = 0
  /\ faults = 0
  /\ formData = EmptyForm
  /\ validation = NotValidated
  /\ automation = NoAutomation
  /\ actionConfig = NotBuilt

\* a trigger is switched off or on in the store; at most MaxEdited triggers
\* differ from the configuration the project started with
SetTriggerStatus(i) ==
  /\ Cardinality({k \in 1 .. Len(triggerStore) :
                    k # i /\ triggerStore[k] # EditedTriggerTable[k]}) < MaxEdited
  /\ triggerStore' = [triggerStore EXCEPT ![i].status =
                        IF @ = "ACTIVE" THEN "INACTIVE" ELSE "ACTIVE"]
  /\ UNCHANGED << formVars, entityChangeQueueInstance, webhookQueueInstance,
                  entityChangeQueue, lastPublish, runs, executions, webhookQueue,
                  errorLog, deliveries, faults >>

NextEdited ==
  \/ Publish
  \/ \E r \in RunIds : DeliverChangeEvent(r)
  \/ \E r \in RunIds : GetTriggers(r)
  \/ \E r \in RunIds : EvaluateTrigger(r)
  \/ \E r \in RunIds : GetActionById(r)
  \/ \E r \in RunIds : GetAutomations(r)
  \/ \E r \in RunIds : CreateExecution(r)
  \/ \E r \in RunIds : AddWebhookJob(r)
  \/ \E i \in 1 .. Len(triggerStore) : SetTriggerStatus(i)

SpecEdited == InitEdited /\ [][NextEdited]_vars

\* ---- the validator applied to every submitted form
InitValidate ==
  /\ entityChangeQueueInstance = TRUE
  /\ webhookQueueInstance = TRUE
  /\ entityChangeQueue = << >>
  /\ lastPublish = NoPublish
  /\ triggerStore = TriggerTable
  /\ runs = [r \in RunIds |-> IdleRun]
  /\ executions = << >>
  /\ webhookQueue = {}
  /\ errorLog = {}
  /\ deliveries = 0
  /\ faults = 0
  /\ formData \in Forms
  /\ validation = NotValidated
  /\ automation = NoAutomation
  /\ actionConfig = NotBuilt

Validate ==
  /\ ~validation.validated
  /\ validation' = validateFormData(formData)
  /\ UNCHANGED << pipelineVars, formData, automation, actionConfig >>

NextValidate == Validate

SpecValidate == InitValidate /\ [][NextValidate]_vars

\* ---- the form of an automation: loaded, then submitted
InitConfig ==
  /\ entityChangeQueueInstance = TRUE
  /\ webhookQueueInstance = TRUE
  /\ entityChangeQueue = << >>
  /\ lastPublish = NoPublish
  /\ triggerStore = TriggerTable
  /\ runs = [r \in RunIds |-> IdleRun]
  /\ executions = << >>
  /\ webhookQueue = {}
  /\ errorLog = {}
  /\ deliveries = 0
  /\ faults = 0
  /\ formData = EmptyForm
  /\ validation = NotValidated
  /\ automation \in Automations
  /\ actionConfig = NotBuilt

\* the form is opened on the automation
GetDefaultValues ==
  /\ formData = EmptyForm
  /\ formData' = getDefaultValues(automation)
  /\ UNCHANGED << pipelineVars, validation, automation, actionConfig >>

\* the form is submitted with or without the event source of the trigger
BuildActionConfig ==
  /\ formData # EmptyForm
  /\ actionConfig = NotBuilt
  /\ \E eventSource \in {NoEventSource, automation.trigger.eventSource} :
       /\ formData' = [webhook |-> formData.webhook, eventSource |-> eventSource]
       /\ actionConfig' = buildActionConfig(formData')
  /\ UNCHANGED << pipelineVars, validation, automation >>

NextConfig == GetDefaultValues \/ BuildActionConfig

SpecConfig == InitConfig /\ [][NextConfig]_vars

\* =================================================================== claims
\* The claims speak of a trigger's filter holding for an event: every condition
\* names the action kind or the dataset name and compares as written.
ConditionHolds(event, c) ==
  LET known == c.column \in {"action", "Name"}
      v == IF c.column = "action" THEN event.action ELSE event.dataset.name
  IN  /\ known
      /\ \/ c.operator = "=" /\ v = c.value
         \/ c.operator = "<>" /\ v # c.value

FilterHolds(event, filter) == \A i \in 1 .. Len(filter) : ConditionHolds(event, filter[i])

\* the loop of run r is past its i-th trigger
Processed(r, i) ==
  /\ runs[r].lookup = "ok"
  /\ i \in 1 .. Len(runs[r].triggers)
  /\ runs[r].pc = "returned" \/ i < runs[r].idx

\* exactly one action, which exists and belongs to exactly one automation
ValidTrigger(t) ==
  /\ Len(t.actionIds) = 1
  /\ t.actionIds[1] \in ActionTable
  /\ Cardinality(AutomationTable[t.actionIds[1]]) = 1

Logged(r, t, kind) == [run |-> r, trigger |-> t.id, kind |-> kind] \in errorLog

DispatchedFor(r, t) == {d \in runs[r].dispatched : d.triggerId = t.id}

JobsFor(executionId) == {job \in webhookQueue : job.payload.executionId = executionId}

\* C1: every webhook job in the queue carries the id of an execution record
\* that already exists; a job is never added for a record that was not created.
C1_JobHasExecution ==
  \A job \in webhookQueue : job.payload.executionId \in DOMAIN executions

\* a job is queued and dispatched while another run has created its record and
\* not yet added its job
C1_Witness ==
  /\ webhookQueue # {}
  /\ deliveries > 0
  /\ \E r \in RunIds : runs[r].pc = "add" /\ runs[r].executionId \in DOMAIN executions

\* C2: an error in one trigger's iteration never stops the loop: every trigger
\* of the run is processed, a valid matching trigger without an error of its own
\* gets its record (and its job when the queue has an instance), and a run whose
\* lookup succeeded never throws.
C2_FailureIsolation ==
  \A r \in RunIds :
    /\ runs[r].lookup = "ok" => runs[r].pc # "threw"
    /\ \A i \in 1 .. Len(runs[r].triggers) :
         LET t == runs[r].triggers[i]
         IN  ( /\ Processed(r, i)
               /\ FilterHolds(Event(runs[r]), t.filter)
               /\ ValidTrigger(t)
               /\ ~Logged(r, t, "trigger") )
             => \E d \in DispatchedFor(r, t) :
                  /\ d.executionId \in DOMAIN executions
                  /\ webhookQueueInstance => JobsFor(d.executionId) # {}

\* a returned run logged an error for one trigger and dispatched a later one
C2_Witness ==
  \E r \in RunIds :
    /\ runs[r].pc = "returned"
    /\ \E i, j \in 1 .. Len(runs[r].triggers) :
         /\ i < j
         /\ Logged(r, runs[r].triggers[i], "trigger")
         /\ \E d \in DispatchedFor(r, runs[r].triggers[j]) : JobsFor(d.executionId) # {}

\* C3: a trigger whose actionIds has zero or several entries never gets an
\* execution record nor a webhook job; when it matches, the error is logged, and
\* a valid matching trigger of the same run still gets its record.
C3_InvalidActionCount ==
  /\ \A id \in DOMAIN executions :
       Len(TriggerTable[executions[id].triggerId].actionIds) = 1
  /\ \A r \in RunIds : \A i \in 1 .. Len(runs[r].triggers) :
       LET t == runs[r].triggers[i]
       IN  Len(t.actionIds) # 1 =>
             /\ DispatchedFor(r, t) = {}
             /\ (Processed(r, i) /\ FilterHolds(Event(runs[r]), t.filter))
                  => Logged(r, t, "trigger")
             /\ \A k \in 1 .. Len(runs[r].triggers) :
                  LET s == runs[r].triggers[k]
                  IN  ( /\ Processed(r, k)
                        /\ FilterHolds(Event(runs[r]), s.filter)
                        /\ ValidTrigger(s)
                        /\ ~Logged(r, s, "trigger") )
                      => DispatchedFor(r, s) # {}

\* a run met a matching trigger with two action ids and one with none, logged
\* both, and dispatched a valid trigger after them
C3_Witness ==
  \E r \in RunIds :
    /\ runs[r].pc = "returned"
    /\ \E i, j, k \in 1 .. Len(runs[r].triggers) :
         /\ i < k /\ j < k
         /\ Len(runs[r].triggers[i].actionIds) = 2
         /\ Len(runs[r].triggers[j].actionIds) = 0
         /\ Logged(r, runs[r].triggers[i], "trigger")
         /\ Logged(r, runs[r].triggers[j], "trigger")
         /\ DispatchedFor(r, runs[r].triggers[k]) # {}

\* C4: a failed trigger lookup is re-raised and nothing is recorded or enqueued
\* for that run; a run throws only for that reason, never for a trigger's error.
C4_LookupFailure ==
  \A r \in RunIds :
    /\ runs[r].lookup = "failed" =>
         /\ runs[r].pc = "threw"
         /\ runs[r].dispatched = {}
         /\ [run |-> r, trigger |-> 0, kind |-> "event"] \in errorLog
    /\ runs[r].pc = "threw" => runs[r].lookup = "failed"
    /\ (\E e \in errorLog : e.run = r /\ e.kind \in {"trigger", "action"})
         => runs[r].pc # "threw"

\* one run threw on its lookup while another logged a trigger error and returned
C4_Witness ==
  \E r, q \in RunIds :
    /\ runs[r].lookup = "failed" /\ runs[r].pc = "threw"
    /\ runs[q].pc = "returned"
    /\ \E e \in errorLog : e.run = q /\ e.kind = "trigger"

\* C5 (as claimed): in a run during which no call has failed, every valid matching
\* trigger gets exactly one record and exactly one webhook job with the record's
\* id, payload type "dataset" and the event's action.
C5_ExactlyOneDelivery ==
  \A r \in RunIds :
    (runs[r].pc = "returned" /\ faults = 0) =>
      \A i \in 1 .. Len(runs[r].triggers) :
        LET t == runs[r].triggers[i]
        IN  (FilterHolds(Event(runs[r]), t.filter) /\ ValidTrigger(t)) =>
              /\ Cardinality(DispatchedFor(r, t)) = 1
              /\ \A d \in DispatchedFor(r, t) :
                   /\ d.executionId \in DOMAIN executions
                   /\ Cardinality(JobsFor(d.executionId)) = 1
                   /\ \A job \in JobsFor(d.executionId) :
                        /\ job.payload.payload.type = "dataset"
                        /\ job.payload.payload.action = Event(runs[r]).action

\* C6 (as claimed): a publish of a dataset that enqueues nothing, and a dispatch
\* decided for a matching trigger with one action that enqueues no webhook job,
\* each leave a logged error or an exception at the caller.
C6_NoSilentDrop ==
  /\ (lastPublish.dataset # Null /\ ~lastPublish.enqueued)
       => (lastPublish.errorLogged \/ lastPublish.result = "threw")
  /\ \A r \in RunIds : \A i \in 1 .. Len(runs[r].triggers) :
       LET t == runs[r].triggers[i]
       IN  ( /\ Processed(r, i)
             /\ FilterHolds(Event(runs[r]), t.filter)
             /\ Len(t.actionIds) = 1 )
           => \/ \E d \in DispatchedFor(r, t) : JobsFor(d.executionId) # {}
              \/ Logged(r, t, "trigger")
              \/ Logged(r, t, "action")

\* C7: an execution record exists only for a (trigger, event) pair whose filter
\* holds for the event; a trigger whose filter does not hold gets no record and
\* no webhook job.
C7_OnlyMatchesDispatched ==
  /\ \A id \in DOMAIN executions :
       \E r \in RunIds : \E d \in runs[r].dispatched :
         d.executionId = id /\ d.triggerId = executions[id].triggerId
  /\ \A r \in RunIds : \A d \in runs[r].dispatched :
       FilterHolds(Event(runs[r]), TriggerTable[d.triggerId].filter)
  /\ \A r \in RunIds : \A i \in 1 .. Len(runs[r].triggers) :
       LET t == runs[r].triggers[i]
       IN  ~FilterHolds(Event(runs[r]), t.filter) => DispatchedFor(r, t) = {}

\* a run of a "deleted" event is past the trigger filtering on action =
\* "updated", has no record for it, and has one for a later trigger
C7_Witness ==
  \E r \in RunIds :
    /\ runs[r].pc = "returned"
    /\ Event(runs[r]).action = "deleted"
    /\ \E i \in 1 .. Len(runs[r].triggers) :
         /\ runs[r].triggers[i].filter # << >>
         /\ ~FilterHolds(Event(runs[r]), runs[r].triggers[i].filter)
         /\ ValidTrigger(runs[r].triggers[i])
    /\ runs[r].dispatched # {}

\* C8: a record is created PENDING, never deleted, no field but status changes,
\* and status only moves from PENDING to SUCCESS or ERROR.
C8_Step ==
  /\ \A id \in DOMAIN executions :
       /\ id \in DOMAIN executions'
       /\ executions'[id] = [executions[id] EXCEPT !.status = executions'[id].status]
       /\ executions'[id].status # executions[id].status =>
            /\ executions[id].status = "PENDING"
            /\ executions'[id].status \in {"SUCCESS", "ERROR"}
  /\ \A id \in DOMAIN executions' \ DOMAIN executions :
       executions'[id].status = "PENDING"

C8_AppendOnly == [][C8_Step]_vars

\* the only job of the queue was delivered twice and its record is terminal
C8_Witness ==
  /\ Cardinality(webhookQueue) = 1
  /\ deliveries = 2
  /\ \A job \in webhookQueue :
       executions[job.payload.executionId].status \in {"SUCCESS", "ERROR"}


\* ---- claims about validateFormData
Headers == formData.webhook.headers

ErrorsOf(index, rules) ==
  SelectSeq(validation.errors, LAMBDA e : e.header = index /\ e.rule \in rules)

DuplicateRule == {"Duplicate header names are not allowed"}

TransitionRules == {"A value must be provided when making a header public",
                    "A value must be provided when making a header secret"}

NormalizedName(header) == toLowerCase(trim(header.name))

\* two rows carry the same non-empty name, up to surrounding blanks and case
NamesCollide ==
  \E i, j \in 1 .. Len(Headers) :
    /\ i < j
    /\ NormalizedName(Headers[i]) # << >>
    /\ NormalizedName(Headers[i]) = NormalizedName(Headers[j])

\* C9: exactly one duplicate-header error when two or more names that are
\* non-empty after trimming are equal after trimming and lower-casing, and no
\* duplicate-header error otherwise.
C9_OneDuplicateError ==
  validation.validated =>
    Len(ErrorsOf(0, DuplicateRule)) = IF NamesCollide THEN 1 ELSE 0

\* three rows collide pairwise (case and blanks differ) and one error is reported
C9_Witness ==
  /\ validation.validated
  /\ Len(Headers) = 3
  /\ \A i, j \in 1 .. 3 : NormalizedName(Headers[i]) = NormalizedName(Headers[j])
  /\ NormalizedName(Headers[1]) # << >>
  /\ \E i, j \in 1 .. 3 : Headers[i].name # Headers[j].name
  /\ Len(ErrorsOf(0, DuplicateRule)) = 1

\* a row whose secret flag changed and whose value is empty or blank
FlagChangedNoValue(header) ==
  header.wasSecret # header.isSecret /\ trim(header.value) = << >>

\* C10 (as claimed): every row whose secret flag changed without a new value
\* gets exactly one "A value must be provided" error, whatever its name.
C10_OneTransitionError ==
  validation.validated =>
    \A i \in 1 .. Len(Headers) :
      FlagChangedNoValue(Headers[i]) => Len(ErrorsOf(i, TransitionRules)) = 1

\* C10 (amended): such a row gets exactly one "A value must be provided" error,
\* worded for its direction, when its name is non-empty after trimming; when the
\* name is empty or blank too the row is ignored and gets no error at all.
C10_OneTransitionErrorInUse ==
  validation.validated =>
    \A i \in 1 .. Len(Headers) :
      FlagChangedNoValue(Headers[i]) =>
        IF trim(Headers[i].name) # << >>
          THEN ErrorsOf(i, TransitionRules) =
                 << [header |-> i,
                     rule |-> IF Headers[i].wasSecret
                       THEN "A value must be provided when making a header public"
                       ELSE "A value must be provided when making a header secret"] >>
          ELSE \A k \in 1 .. Len(validation.errors) : validation.errors[k].header # i

\* one named row turns secret, one turns public, one changed row is fully empty
C10_Witness ==
  /\ validation.validated
  /\ \E i, j, k \in 1 .. Len(Headers) :
       /\ FlagChangedNoValue(Headers[i]) /\ FlagChangedNoValue(Headers[j])
       /\ FlagChangedNoValue(Headers[k])
       /\ trim(Headers[i].name) # << >> /\ Headers[i].isSecret
       /\ trim(Headers[j].name) # << >> /\ Headers[j].wasSecret
       /\ trim(Headers[k].name) = << >>
       /\ Len(ErrorsOf(i, TransitionRules)) = 1
       /\ Len(ErrorsOf(j, TransitionRules)) = 1
       /\ Len(ErrorsOf(k, TransitionRules)) = 0


\* the rules of one in-use row; a name or value is empty when nothing is left
\* of it once surrounding white space is removed
NameRule == {"Name cannot be empty"}

ValueRule == {"Value cannot be empty"}

ReservedRule == {"is automatically added by Langfuse"}

RowInUse(header) == trim(header.name) # << >> \/ trim(header.value) # << >>

ViolatesName(header) == trim(header.name) = << >>

ViolatesValue(header) == trim(header.value) = << >> /\ ~header.isSecret

\* reserved: the trimmed, lower-cased name is a key of the default headers
ViolatesReserved(header) == NormalizedName(header) \in defaultHeaderKeys

Count(b) == IF b THEN 1 ELSE 0

\* C11: every violation is collected: each in-use row has one error for each of
\* the four rules it violates (empty name, empty value while not secret, secret
\* flag changed without a value, reserved name) and none for a rule it keeps,
\* whatever else is wrong in the form; a fully-empty row has no error; and
\* isValid is true exactly when the error list is empty.
C11_AllViolationsCollected ==
  validation.validated =>
    /\ validation.isValid <=> (validation.errors = << >>)
    /\ \A i \in 1 .. Len(Headers) :
         IF RowInUse(Headers[i])
           THEN /\ Len(ErrorsOf(i, NameRule)) = Count(ViolatesName(Headers[i]))
                /\ Len(ErrorsOf(i, ValueRule)) = Count(ViolatesValue(Headers[i]))
                /\ Len(ErrorsOf(i, TransitionRules)) =
                     Count(FlagChangedNoValue(Headers[i]))
                /\ Len(ErrorsOf(i, ReservedRule)) = Count(ViolatesReserved(Headers[i]))
           ELSE \A k \in 1 .. Len(validation.errors) : validation.errors[k].header # i

\* a form without URL whose first row breaks three rules at once, whose second
\* row has a value and no name, and whose third row is fully empty
C11_Witness ==
  /\ validation.validated
  /\ ~validation.isValid
  /\ formData.webhook.url = ""
  /\ Len(Headers) = 3
  /\ ViolatesValue(Headers[1]) /\ FlagChangedNoValue(Headers[1])
  /\ ViolatesReserved(Headers[1])
  /\ ViolatesName(Headers[2]) /\ RowInUse(Headers[2])
  /\ ~RowInUse(Headers[3]) /\ Headers[3].name # << >>
  /\ Len(validation.errors) = 5


\* the row's trimmed name equals a default header key when letter case is ignored
CollidesIgnoringCase(header, key) == NormalizedName(header) = toLowerCase(key)

WrittenInLowerCase(key) == toLowerCase(key) = key

FormApiVersions == SavedApiVersions \ {NoApiVersion}

\* C13 (as claimed): the configuration built from a submitted form has an
\* apiVersion with exactly one key, the event source of the automation's
\* trigger, whatever apiVersion the form carries and also when the form carries
\* no eventSource.
C13_ApiVersionFollowsTrigger ==
  actionConfig.result = "returned" =>
    /\ Cardinality(DOMAIN actionConfig.apiVersion) = 1
    /\ DOMAIN actionConfig.apiVersion = {automation.trigger.eventSource}
    /\ \A v \in FormApiVersions :
         buildActionConfig([formData EXCEPT !.webhook.apiVersion = v]).apiVersion
           = actionConfig.apiVersion

\* two saved automations, written with the same masking, that differ at most in
\* the stored plaintext of their secret headers
DifferOnlyInSecretPlaintext(a, b) ==
  /\ \E style \in MaskStyles :
       /\ a.action.config.displayHeaders =
            createDisplayHeaders(style, a.action.config.requestHeaders)
       /\ b.action.config.displayHeaders =
            createDisplayHeaders(style, b.action.config.requestHeaders)
  /\ a.trigger = b.trigger
  /\ a.action.config.url = b.action.config.url
  /\ a.action.config.apiVersion = b.action.config.apiVersion
  /\ Len(a.action.config.requestHeaders) = Len(b.action.config.requestHeaders)
  /\ \A i \in 1 .. Len(a.action.config.requestHeaders) :
       LET x == a.action.config.requestHeaders[i]
           y == b.action.config.requestHeaders[i]
       IN  /\ x.name = y.name
           /\ x.secret = y.secret
           /\ ~x.secret => x.value = y.value

FormLoaded == formData # EmptyForm /\ automation.saved

Rows == formData.webhook.headers

SecretRowsBlank ==
  \A i \in 1 .. Len(Rows) :
    automation.action.config.displayHeaders[i].secret =>
      Rows[i].value = << >> /\ Rows[i].isSecret /\ Rows[i].wasSecret

C15_Step ==
  (lastPublish' # lastPublish \/ entityChangeQueue' # entityChangeQueue) =>
    LET call == lastPublish'
    IN  IF call.dataset = Null
          THEN /\ UNCHANGED entityChangeQueue
               /\ call.result = "returned" /\ ~call.errorLogged
          ELSE IF call.result = "returned"
            THEN /\ Len(entityChangeQueue') = Len(entityChangeQueue) + 1
                 /\ SubSeq(entityChangeQueue', 1, Len(entityChangeQueue)) = entityChangeQueue
                 /\ LET payload == entityChangeQueue'[Len(entityChangeQueue')].payload
                    IN  /\ payload.action = call.action
                        /\ payload.projectId = call.dataset.projectId
                        /\ payload.datasetId = call.dataset.id
            ELSE /\ UNCHANGED entityChangeQueue
                 /\ call.result = "threw"

C15_PublishEnqueuesOne == [][C15_Step]_vars


\* ---- claims about the processor while triggers are edited
\* C16: a trigger without filter conditions matches every change event of its
\* project, whatever the action kind: once a run is past such a trigger with
\* one existing action of one automation, the trigger has its execution record
\* for the run's event, unless a call of that iteration failed and was logged.
C16_EmptyFilterMatchesAll ==
  \A r \in RunIds : \A i \in 1 .. Len(runs[r].triggers) :
    LET t == runs[r].triggers[i]
    IN  ( /\ Processed(r, i)
          /\ t.filter = << >>
          /\ ValidTrigger(t)
          /\ ~Logged(r, t, "trigger") )
        => \E d \in DispatchedFor(r, t) :
             /\ d.executionId \in DOMAIN executions
             /\ executions[d.executionId].triggerId = t.id
             /\ executions[d.executionId].sourceId = Event(runs[r]).dataset.id

\* two runs over events of different action kinds, one of them a deletion, each
\* have a record for the trigger without filter
C16_Witness ==
  \E r, q \in RunIds :
    /\ runs[r].pc = "returned" /\ runs[q].pc = "returned"
    /\ Event(runs[r]).action = "deleted"
    /\ Event(runs[q]).action = "created"
    /\ \E i \in 1 .. Len(runs[r].triggers), j \in 1 .. Len(runs[q].triggers) :
         /\ runs[r].triggers[i].filter = << >>
         /\ runs[q].triggers[j].filter = << >>
         /\ DispatchedFor(r, runs[r].triggers[i]) # {}
         /\ DispatchedFor(q, runs[q].triggers[j]) # {}


\* the trigger has a condition on a column other than "action" and "Name"
HasUnknownColumn(t) ==
  \E k \in 1 .. Len(t.filter) : t.filter[k].column \notin {"action", "Name"}

\* C17: a trigger with a condition on a column the field mapper does not
\* recognise gets no execution record for any event, the run does not throw and,
\* when no call has failed, no error is logged for it; every column offered by
\* datasetActionFilterOptions is recognised by the mapper under its name.
C17_UnknownColumnNeverMatches ==
  \A r \in RunIds :
    /\ \A i \in 1 .. Len(runs[r].triggers) :
         LET t == runs[r].triggers[i]
         IN  HasUnknownColumn(t) =>
               /\ DispatchedFor(r, t) = {}
               /\ \A id \in DOMAIN executions : executions[id].triggerId # t.id
               /\ runs[r].pc # "threw"
               /\ faults = 0 => ~Logged(r, t, "trigger") /\ ~Logged(r, t, "action")
    /\ runs[r].pc # "idle" =>
         \A k \in 1 .. Len(datasetActionFilterOptions) :
           fieldMapper(EventData(Event(runs[r])), datasetActionFilterOptions[k].name)
             = Event(runs[r]).dataset.name

\* a run over an "updated" event, in which no call failed, is past the trigger
\* whose other condition holds, left it without record or error and made a
\* record for a later trigger
C17_Witness ==
  \E r \in RunIds :
    /\ runs[r].pc = "returned"
    /\ faults = 0
    /\ Event(runs[r]).action = "updated"
    /\ \E i, j \in 1 .. Len(runs[r].triggers) :
         /\ i < j
         /\ HasUnknownColumn(runs[r].triggers[i])
         /\ DispatchedFor(r, runs[r].triggers[i]) = {}
         /\ ~Logged(r, runs[r].triggers[i], "trigger")
         /\ DispatchedFor(r, runs[r].triggers[j]) # {}


\* ---- claims about reprocessing
RecordsOf(t) == {id \in DOMAIN executions : executions[id].triggerId = t.id}

\* C18 (as claimed): when the same change event is processed by two runs in
\* which no call failed, every matching valid trigger has one record per run,
\* with different identifiers, and one webhook job per record: two records and
\* two jobs.
C18_NoDeduplication ==
  \A r, q \in RunIds :
    ( /\ r # q
      /\ runs[r].pc = "returned" /\ runs[q].pc = "returned"
      /\ runs[r].eventIdx = runs[q].eventIdx
      /\ faults = 0 )
    => \A i \in 1 .. Len(runs[r].triggers) :
         LET t == runs[r].triggers[i]
         IN  (FilterHolds(Event(runs[r]), t.filter) /\ ValidTrigger(t)) =>
               /\ Cardinality(DispatchedFor(r, t)) = 1
               /\ Cardinality(DispatchedFor(q, t)) = 1
               /\ \A d \in DispatchedFor(r, t) : \A e \in DispatchedFor(q, t) :
                    d.executionId # e.executionId
               /\ RecordsOf(t) =
                    {d.executionId : d \in DispatchedFor(r, t) \cup DispatchedFor(q, t)}
               /\ Cardinality(RecordsOf(t)) = 2
               /\ \A id \in RecordsOf(t) : Cardinality(JobsFor(id)) = 1


\* ---- claims about the trigger lookup
TriggerIds(triggers) == {triggers[k].id : k \in 1 .. Len(triggers)}

\* the triggers of the store that are active dataset triggers of the project
ActiveDatasetTriggers(store, projectId) ==
  {store[k].id : k \in {n \in 1 .. Len(store) :
                          /\ store[n].status = "ACTIVE"
                          /\ store[n].eventSource = "dataset"
                          /\ store[n].projectId = projectId}}

\* C19: the triggers of a run are those that are active dataset triggers of the
\* event's project in the store at the moment of that run's lookup, nothing of
\* an earlier run is reused, the list does not change during the run, and a
\* record is created only for a trigger of the creating run's list.
C19_Step ==
  \A r \in RunIds :
    /\ (runs[r].lookup = "pending" /\ runs'[r].lookup = "ok") =>
         TriggerIds(runs'[r].triggers) =
           ActiveDatasetTriggers(triggerStore, Event(runs[r]).projectId)
    /\ runs[r].lookup = "ok" => runs'[r].triggers = runs[r].triggers
    /\ \A d \in runs'[r].dispatched \ runs[r].dispatched :
         /\ d.triggerId \in TriggerIds(runs[r].triggers)
         /\ d.executionId \in DOMAIN executions' \ DOMAIN executions
         /\ executions'[d.executionId].triggerId = d.triggerId

C19_FreshTriggerRead == [][C19_Step]_vars

\* a trigger is inactive in the store; the run that looked up before the edit
\* made a record for it, the run that looked up after it returned without one
C19_Witness ==
  \E r, q \in RunIds : \E k \in 1 .. Len(triggerStore) :
    /\ triggerStore[k].status = "INACTIVE"
    /\ runs[r].pc = "returned" /\ runs[q].pc = "returned"
    /\ runs[r].eventIdx = runs[q].eventIdx
    /\ triggerStore[k].id \in TriggerIds(runs[r].triggers)
    /\ \E d \in runs[r].dispatched : d.triggerId = triggerStore[k].id
    /\ triggerStore[k].id \notin TriggerIds(runs[q].triggers)
    /\ runs[q].lookup = "ok"
    /\ \A d \in runs[q].dispatched : d.triggerId # triggerStore[k].id


\* ---- claims about a deleted action
\* the trigger's single action id is not in the store
ActionMissing(t) == Len(t.actionIds) = 1 /\ t.actionIds[1] \notin ActionTable

\* C20: a matched trigger whose single action no longer exists gets no
\* execution record and no webhook job, and the run does not throw; when no call
\* has failed the error logged for it is "action not found" and no exception
\* reaches the trigger's catch; the triggers after it are still processed, a
\* valid matching one gets its record.
C20_MissingActionSkipped ==
  \A r \in RunIds : \A i \in 1 .. Len(runs[r].triggers) :
    LET t == runs[r].triggers[i]
    IN  ActionMissing(t) =>
          /\ DispatchedFor(r, t) = {}
          /\ RecordsOf(t) = {}
          /\ \A job \in webhookQueue :
               executions[job.payload.executionId].triggerId # t.id
          /\ runs[r].pc # "threw"
          /\ (Processed(r, i) /\ FilterHolds(Event(runs[r]), t.filter) /\ faults = 0)
               => Logged(r, t, "action") /\ ~Logged(r, t, "trigger")
          /\ runs[r].pc = "returned" =>
               \A k \in i + 1 .. Len(runs[r].triggers) :
                 LET s == runs[r].triggers[k]
                 IN  ( /\ FilterHolds(Event(runs[r]), s.filter)
                       /\ ValidTrigger(s)
                       /\ ~Logged(r, s, "trigger") )
                     => DispatchedFor(r, s) # {}

\* a run in which no call failed logged the missing action of one trigger, made
\* nothing for it, and made a record and a job for the trigger after it
C20_Witness ==
  \E r \in RunIds :
    /\ runs[r].pc = "returned"
    /\ faults = 0
    /\ \E i, k \in 1 .. Len(runs[r].triggers) :
         /\ i < k
         /\ ActionMissing(runs[r].triggers[i])
         /\ Logged(r, runs[r].triggers[i], "action")
         /\ DispatchedFor(r, runs[r].triggers[i]) = {}
         /\ \E d \in DispatchedFor(r, runs[r].triggers[k]) : JobsFor(d.executionId) # {}

====
